---- MODULE Spec2Model ----
(***************************************************************************)
(* A model of src/main.py: four HTTP handlers (read_root, hello,           *)
(* test_database, get_schema) and the collaborators they consult: the      *)
(* `database` module and its `db` handle, the process environment, and the *)
(* `schemas` module of pydantic models.                                    *)
(*                                                                         *)
(* Python strings are TLA+ strings.  The emoji the source puts in front of *)
(* its status texts are written as ASCII tags: "[OK]" for the check mark,  *)
(* "[X]" for the cross and "[!]" for the warning sign.  Python's None is   *)
(* the token PyNone, which no collaborator value of the model equals.      *)
(* Exceptions are the subclasses of Exception; they are modelled by their  *)
(* class as far as the except clauses tell classes apart: ImportError      *)
(* (with ModuleNotFoundError, its subclass) and every other Exception.     *)
(***************************************************************************)
EXTENDS Naturals, Sequences, FiniteSets, TLC

VARIABLES database, environ, schemas, last, pc, frame, heap

vars == <<database, environ, schemas, last, pc, frame, heap>>

world == <<database, environ, schemas>>

(***************************************************************************)
(* Bounds of the model.                                                    *)
(***************************************************************************)
MaxMsgLen == 52

MaxCollections == 12

(***************************************************************************)
(* Program constants.                                                      *)
(***************************************************************************)
MsgLimit == 50

CollectionLimit == 10

PyNone == "<None>"

PydanticUndefined == "<PydanticUndefined>"

Min(a, b) == IF a < b THEN a ELSE b

(***************************************************************************)
(* Collaborator values.                                                    *)
(***************************************************************************)
Digits == <<"0", "1", "2", "3", "4", "5", "6", "7", "8", "9">>

RECURSIVE Msg(_)
Msg(n) == IF n = 0 THEN "" ELSE Msg(n - 1) \o Digits[(n % 10) + 1]

MsgLens == {0, 1, MsgLimit - 1, MsgLimit, MsgLimit + 1, MaxMsgLen}

Messages == {Msg(n) : n \in MsgLens}

CollectionNames(n, descending) ==
    [i \in 1..n |-> "c" \o ToString(IF descending THEN n + 1 - i ELSE i)]

\* What db.list_collection_names() may return: every length up to the
\* bound, and the long ones also in the opposite order.
Listings ==
    {CollectionNames(n, FALSE) : n \in 0..MaxCollections}
    \cup {CollectionNames(n, TRUE) : n \in CollectionLimit..MaxCollections}

NoDb ==
    [handle |-> "None", name |-> "absent", name_value |-> PyNone,
     listing |-> "ok", names |-> <<>>]

DbWorld(imp, h, msg) == [import |-> imp, db |-> h, message |-> msg]

Handle(name, value, listing, names) ==
    [handle |-> "object", name |-> name, name_value |-> value,
     listing |-> listing, names |-> names]

\* A db handle: its name attribute is absent, has a value, or raises when
\* read; its collection listing returns a list or raises.
Handles ==
    {Handle("value", "appdb", "ok", l) : l \in Listings}
    \cup {Handle("absent", PyNone, "ok", CollectionNames(n, FALSE)) :
            n \in {0, MaxCollections}}
    \cup {Handle(nm[1], nm[2], cls, <<>>) :
            nm \in {<<"absent", PyNone>>, <<"value", "appdb">>},
            cls \in {"ImportError", "Exception"}}
    \cup {Handle(cls, PyNone, "ok", CollectionNames(2, FALSE)) :
            cls \in {"ImportError", "Exception"}}

Raising(h) == h.name \in {"ImportError", "Exception"}
              \/ h.listing \in {"ImportError", "Exception"}

DbWorlds ==
    {DbWorld("ModuleNotFoundError", NoDb, "No module named 'database'")}
    \cup {DbWorld(cls, NoDb, m) :
            cls \in {"ImportError", "Exception"}, m \in Messages}
    \cup {DbWorld("ok", NoDb, "")}
    \cup {DbWorld("ok", h, "") : h \in {x \in Handles : ~Raising(x)}}
    \cup {DbWorld("ok", h, m) : h \in {x \in Handles : Raising(x)},
                                 m \in Messages}

EnvNames == {"DATABASE_URL", "DATABASE_NAME"}

EnvValues == {"", "mongodb://localhost:27017"}

\* os.environ: the variables that are present, each with its value.
Environs == UNION {[present -> EnvValues] : present \in SUBSET EnvNames}

(***************************************************************************)
(* The schemas module: a namespace binding names to objects.  A pydantic   *)
(* model carries model_fields, the ordered mapping of its attributes.      *)
(***************************************************************************)
FieldInfo(name, annotation, default, factory, description) ==
    [name |-> name, annotation |-> annotation, default |-> default,
     default_factory |-> factory, description |-> description]

UserFields ==
    << FieldInfo("name", "<class 'str'>", PydanticUndefined, FALSE, "Full name"),
       FieldInfo("email", "<class 'str'>", PydanticUndefined, FALSE, PyNone),
       FieldInfo("age", "typing.Optional[int]", PyNone, FALSE, ""),
       FieldInfo("is_active", "<class 'bool'>", "True", FALSE, "Active flag") >>

OrderItemFields ==
    << FieldInfo("sku", "<class 'str'>", PydanticUndefined, FALSE, PyNone),
       FieldInfo("tags", "typing.List[str]", PydanticUndefined, TRUE, "Labels") >>

Member(isclass, basemodel, module, fields) ==
    [isclass |-> isclass, basemodel |-> basemodel, module |-> module,
     model_fields |-> fields]

Universe ==
    [User |-> Member(TRUE, TRUE, "schemas", UserFields),
     ORDERItem |-> Member(TRUE, TRUE, "schemas", OrderItemFields),
     BaseModel |-> Member(TRUE, TRUE, "pydantic.main", <<>>),
     Helper |-> Member(TRUE, FALSE, "schemas", <<>>),
     Field |-> Member(FALSE, FALSE, "pydantic.fields", <<>>)]

Namespaces == {[n \in names |-> Universe[n]] : names \in SUBSET DOMAIN Universe}

SchemaWorld(imp, ns, msg) == [import |-> imp, members |-> ns, message |-> msg]

EmptyNamespace == [n \in {} |-> Universe.User]

SchemaWorlds ==
    {SchemaWorld("ModuleNotFoundError", EmptyNamespace, "No module named 'schemas'")}
    \cup {SchemaWorld(cls, EmptyNamespace, m) :
            cls \in {"ImportError", "Exception"}, m \in {Msg(0), Msg(MaxMsgLen)}}
    \cup {SchemaWorld("ok", ns, "") : ns \in Namespaces}

(***************************************************************************)
(* Python built-ins the handlers use.                                      *)
(***************************************************************************)
\* s[:limit] on a string or a list
Slice(s, limit) == SubSeq(s, 1, Min(limit, Len(s)))

\* os.getenv(key): the value, or None when the variable is not present
getenv(env, key) == IF key \in DOMAIN env THEN env[key] ELSE PyNone

\* truth value of an Optional[str]
Truthy(v) == v # PyNone /\ v # ""

UpperCase == "ABCDEFGHIJKLMNOPQRSTUVWXYZ"

LowerCase == "abcdefghijklmnopqrstuvwxyz"

LowerChar(c) ==
    IF \E i \in 1..Len(UpperCase) : SubSeq(UpperCase, i, i) = c
    THEN LET i == CHOOSE i \in 1..Len(UpperCase) : SubSeq(UpperCase, i, i) = c
         IN  SubSeq(LowerCase, i, i)
    ELSE c

\* str.lower()
RECURSIVE lower(_)
lower(s) ==
    IF Len(s) = 0 THEN ""
    ELSE lower(SubSeq(s, 1, Len(s) - 1)) \o LowerChar(SubSeq(s, Len(s), Len(s)))

(***************************************************************************)
(* The framework: a handler's return value is sent with status 200; an     *)
(* exception that leaves the handler is answered with status 500.          *)
(***************************************************************************)
Ok(body) == [status |-> 200, body |-> body]

ServerError == [status |-> 500, body |-> [detail |-> "Internal Server Error"]]

(***************************************************************************)
(* GET / and GET /api/hello                                                *)
(***************************************************************************)
read_root == Ok([message |-> "Hello from FastAPI Backend!"])

\* Faulty variant of hello: the body copied from read_root.
hello_CopiedFromRoot == Ok([message |-> "Hello from FastAPI Backend!"])

hello == Ok([message |-> "Hello from the backend API!"])

(***************************************************************************)
(* GET /test                                                               *)
(***************************************************************************)
InitialResponse ==
    [backend |-> "[OK] Running",
     database |-> "[X] Not Available",
     database_url |-> PyNone,
     database_name |-> PyNone,
     connection_status |-> "Not Connected",
     collections |-> <<>>]

\* The state of a try block: the response mapping and the exception in
\* flight ("none" when the block completed).
Outcome(response, exc) == [response |-> response, exc |-> exc]

\* isinstance(e, ImportError)
IsImportError(cls) == cls \in {"ImportError", "ModuleNotFoundError"}

\* Faulty variant of the inner try: the listing stored without the [:10].
ListCollections_Unsliced(w, response) ==
    IF w.db.listing = "ok"
    THEN LET r1 == [response EXCEPT !.collections = w.db.names]
         IN  [r1 EXCEPT !.database = "[OK] Connected & Working"]
    ELSE [response EXCEPT
             !.database = "[!]  Connected but Error: " \o Slice(w.message, MsgLimit)]

\* The inner try/except around db.list_collection_names().
ListCollections(w, response) ==
    IF w.db.listing = "ok"
    THEN LET r1 == [response EXCEPT !.collections = Slice(w.db.names, CollectionLimit)]
         IN  [r1 EXCEPT !.database = "[OK] Connected & Working"]
    ELSE [response EXCEPT
             !.database = "[!]  Connected but Error: " \o Slice(w.message, MsgLimit)]

\* Faulty variant of the handle block: connection_status set only once
\* the listing has succeeded.
HandleBlock_StatusAfterListing(w, response) ==
    IF w.db.handle # "None"
    THEN LET r1 == [response EXCEPT !.database = "[OK] Available"]
             r2 == [r1 EXCEPT !.database_url = "[OK] Configured"]
         IN  IF w.db.name \in {"ImportError", "Exception"}
             THEN Outcome(r2, w.db.name)
             ELSE LET r3 == [r2 EXCEPT !.database_name =
                                 IF w.db.name = "value" THEN w.db.name_value
                                                        ELSE "[OK] Connected"]
                      r4 == ListCollections(w, r3)
                  IN  Outcome(IF w.db.listing = "ok"
                              THEN [r4 EXCEPT !.connection_status = "Connected"]
                              ELSE r4,
                              "none")
    ELSE Outcome([response EXCEPT !.database = "[!]  Available but not initialized"],
                 "none")

\* The body of `if db is not None:` and its else branch.
HandleBlock(w, response) ==
    IF w.db.handle # "None"
    THEN LET r1 == [response EXCEPT !.database = "[OK] Available"]
             r2 == [r1 EXCEPT !.database_url = "[OK] Configured"]
         IN  IF w.db.name \in {"ImportError", "Exception"}
             THEN Outcome(r2, w.db.name)
             ELSE LET r3 == [r2 EXCEPT !.database_name =
                                 IF w.db.name = "value" THEN w.db.name_value
                                                        ELSE "[OK] Connected"]
                      r4 == [r3 EXCEPT !.connection_status = "Connected"]
                  IN  Outcome(ListCollections(w, r4), "none")
    ELSE Outcome([response EXCEPT !.database = "[!]  Available but not initialized"],
                 "none")

\* The outer try block: `from database import db`, then the handle.
TryBlock(w, response) ==
    IF w.import # "ok" THEN Outcome(response, w.import)
                       ELSE HandleBlock(w, response)

\* Faulty variant of the except clauses: `except Exception` left out.
ExceptClauses_ImportErrorOnly(w, o) ==
    IF IsImportError(o.exc)
    THEN Outcome([o.response EXCEPT !.database =
                     "[X] Database module not found (run enable-database first)"],
                 "none")
    ELSE o

\* The except clauses of the outer try.
ExceptClauses(w, o) ==
    IF o.exc = "none" THEN o
    ELSE IF IsImportError(o.exc)
    THEN Outcome([o.response EXCEPT !.database =
                     "[X] Database module not found (run enable-database first)"],
                 "none")
    ELSE Outcome([o.response EXCEPT !.database =
                     "[X] Error: " \o Slice(w.message, MsgLimit)],
                 "none")

\* The environment variable checks.
EnvCheck(env, response) ==
    LET r1 == [response EXCEPT !.database_url =
                   IF Truthy(getenv(env, "DATABASE_URL")) THEN "[OK] Set"
                                                          ELSE "[X] Not Set"]
    IN  [r1 EXCEPT !.database_name =
             IF Truthy(getenv(env, "DATABASE_NAME")) THEN "[OK] Set"
                                                     ELSE "[X] Not Set"]

test_database(w, env) ==
    LET o == ExceptClauses(w, TryBlock(w, InitialResponse))
    IN  IF o.exc # "none" THEN ServerError
                          ELSE Ok(EnvCheck(env, o.response))

(***************************************************************************)
(* GET /schema                                                             *)
(***************************************************************************)
\* FieldInfo.is_required()
is_required(f) == f.default = PydanticUndefined /\ ~f.default_factory

\* Faulty variant of the field entry: `required` read off the default
\* value alone, a default factory overlooked.
FieldEntry_DefaultValueOnly(f) ==
    LET required == f.default = PydanticUndefined
    IN  [name |-> f.name,
         type |-> f.annotation,
         required |-> required,
         default |-> IF required THEN PyNone ELSE f.default,
         description |-> IF Truthy(f.description) THEN f.description ELSE PyNone]

\* One entry of fields_info.
FieldEntry(f) ==
    LET required == is_required(f)
    IN  [name |-> f.name,
         type |-> f.annotation,
         required |-> required,
         default |-> IF required THEN PyNone ELSE f.default,
         description |-> IF Truthy(f.description) THEN f.description ELSE PyNone]

FieldsInfo(model) ==
    [i \in 1..Len(model.model_fields) |-> FieldEntry(model.model_fields[i])]

\* The filter on the members of the schemas module.
IsSchemaModel(obj) == obj.isclass /\ obj.basemodel /\ obj.module = "schemas"

\* Faulty variant of the definition: the collection not lower-cased.
Definition_NotLowered(name, obj) ==
    [collection |-> name, title |-> name, fields |-> FieldsInfo(obj)]

Definition(name, obj) ==
    [collection |-> lower(name), title |-> name, fields |-> FieldsInfo(obj)]

Definitions(members) ==
    [name \in {n \in DOMAIN members : IsSchemaModel(members[n])} |->
        Definition(name, members[name])]

\* Faulty variant of get_schema: `except ImportError` in place of
\* `except Exception`.
get_schema_ImportErrorOnly(sw) ==
    IF IsImportError(sw.import)
    THEN Ok([error |-> "Unable to import schemas: " \o sw.message])
    ELSE IF sw.import # "ok" THEN ServerError
    ELSE Ok([schemas |-> Definitions(sw.members)])

get_schema(sw) ==
    IF sw.import # "ok"
    THEN Ok([error |-> "Unable to import schemas: " \o sw.message])
    ELSE Ok([schemas |-> Definitions(sw.members)])

(***************************************************************************)
(* Requests served one at a time: each action is a whole handler call.     *)
(***************************************************************************)
NoRequest == [endpoint |-> "none", response |-> Ok([message |-> ""])]

Served(endpoint, response) == [endpoint |-> endpoint, response |-> response]

Idle == /\ pc = <<>>
        /\ frame = <<>>
        /\ heap = <<>>

Init ==
    /\ database \in DbWorlds
    /\ environ \in Environs
    /\ schemas \in SchemaWorlds
    /\ last = NoRequest
    /\ Idle

GetRoot ==
    /\ last' = Served("/", read_root)
    /\ UNCHANGED <<world, pc, frame, heap>>

GetHello ==
    /\ last' = Served("/api/hello", hello)
    /\ UNCHANGED <<world, pc, frame, heap>>

GetTest ==
    /\ last' = Served("/test", test_database(database, environ))
    /\ UNCHANGED <<world, pc, frame, heap>>

GetSchema ==
    /\ last' = Served("/schema", get_schema(schemas))
    /\ UNCHANGED <<world, pc, frame, heap>>

Next == GetRoot \/ GetHello \/ GetTest \/ GetSchema

Spec == Init /\ [][Next]_vars

(***************************************************************************)
(* Properties of the responses.  Each is stated of `last`, the request     *)
(* served most recently, against the collaborators it was served from.     *)
(***************************************************************************)
TestServed == last.endpoint = "/test"

SchemaServed == last.endpoint = "/schema"

Body == last.response.body

SixKeys == {"backend", "database", "database_url", "database_name",
            "connection_status", "collections"}

ModuleLoaded == database.import = "ok"

HandlePresent == ModuleLoaded /\ database.db.handle # "None"

NameRaises == HandlePresent /\ database.db.name \in {"ImportError", "Exception"}

ListingCalled == HandlePresent /\ ~NameRaises

ListingRaises == ListingCalled /\ database.db.listing # "ok"

ListingReturns == ListingCalled /\ database.db.listing = "ok"

\* C1: GET /test always answers with status 200 and a mapping whose keys
\* are exactly the six fixed keys, whatever the state of the database
\* collaborator: module missing, import raising, handle None, listing
\* succeeding, listing or the read of db.name raising.
C1_TestAlwaysSixKeys ==
    TestServed => /\ last.response.status = 200
                  /\ DOMAIN Body = SixKeys

C1_Witness ==
    /\ TestServed
    /\ NameRaises
    /\ database.db.name = "Exception"
    /\ last.response.status = 200

\* C2: GET /schema answers 200 with the single key `error` (a text) when
\* loading the schemas module raises, and with the single key `schemas`
\* when the module loads.
C2_SchemaErrorOrSchemas ==
    SchemaServed =>
        /\ last.response.status = 200
        /\ schemas.import # "ok" =>
              /\ DOMAIN Body = {"error"}
              /\ Body.error = "Unable to import schemas: " \o schemas.message
        /\ schemas.import = "ok" => DOMAIN Body = {"schemas"}

C2_Witness ==
    /\ SchemaServed
    /\ schemas.import = "Exception"
    /\ schemas.message = Msg(MaxMsgLen)
    /\ DOMAIN Body = {"error"}

\* The attribute has no default declared: neither a default value nor a
\* default factory.
NoDefaultDeclared(attr) == attr.default = PydanticUndefined /\ ~attr.default_factory

\* C3: for every type GET /schema exposes, `fields` has one entry per
\* attribute declared on the type, in order and each name once, and
\* `required` is true exactly when the attribute declares no default.
C3_FieldsMatchAttributes ==
    (SchemaServed /\ schemas.import = "ok") =>
        \A n \in DOMAIN Body.schemas :
            LET declared == schemas.members[n].model_fields
                fields == Body.schemas[n].fields
            IN  /\ Len(fields) = Len(declared)
                /\ Cardinality({fields[i].name : i \in 1..Len(fields)}) = Len(declared)
                /\ \A i \in 1..Len(declared) :
                      /\ fields[i].name = declared[i].name
                      /\ fields[i].required <=> NoDefaultDeclared(declared[i])

C3_Witness ==
    /\ SchemaServed
    /\ schemas.import = "ok"
    /\ {"User", "ORDERItem"} \subseteq DOMAIN Body.schemas
    /\ Len(Body.schemas["User"].fields) = 4
    /\ ~Body.schemas["ORDERItem"].fields[2].required

\* C4: GET / and GET /api/hello always answer 200 with their fixed message,
\* in every state of the database module, the schemas module and the
\* environment.
C4_FixedGreetings ==
    /\ last.endpoint = "/" =>
          /\ last.response.status = 200
          /\ Body = [message |-> "Hello from FastAPI Backend!"]
    /\ last.endpoint = "/api/hello" =>
          /\ last.response.status = 200
          /\ Body = [message |-> "Hello from the backend API!"]

C4_Witness ==
    /\ last.endpoint = "/api/hello"
    /\ database.import = "Exception"
    /\ schemas.import = "ModuleNotFoundError"
    /\ DOMAIN environ = {}
    /\ Body.message = "Hello from the backend API!"

\* C5 (as claimed): in GET /test every failure of the database collaborator
\* becomes a text in `database`: the module missing gives the
\* module-not-found text; any other exception while importing or while
\* reading the handle gives "Error: " and the first 50 characters of its
\* message; a None handle gives "Available but not initialized"; a failing
\* listing gives "Connected but Error: " and the first 50 characters; only a
\* successful listing gives "Connected & Working"; the initial "Not
\* Available" is returned in none of these cases.
C5_FailuresRenderedAsClaimed ==
    TestServed =>
        /\ last.response.status = 200
        /\ database.import = "ModuleNotFoundError" =>
              Body.database = "[X] Database module not found (run enable-database first)"
        /\ (database.import \in {"ImportError", "Exception"} \/ NameRaises) =>
              Body.database = "[X] Error: " \o Slice(database.message, MsgLimit)
        /\ (ModuleLoaded /\ ~HandlePresent) =>
              Body.database = "[!]  Available but not initialized"
        /\ ListingRaises =>
              Body.database = "[!]  Connected but Error: "
                                  \o Slice(database.message, MsgLimit)
        /\ (Body.database = "[OK] Connected & Working") <=> ListingReturns
        /\ Body.database # "[X] Not Available"

\* C6 (as claimed): in GET /test, database_url is "Set" exactly when
\* DATABASE_URL is present in the environment and "Not Set" otherwise, the
\* same for database_name and DATABASE_NAME, whatever the variable's value
\* and whatever the state of the handle.
C6_EnvPresenceAsClaimed ==
    TestServed =>
        /\ Body.database_url =
              IF "DATABASE_URL" \in DOMAIN environ THEN "[OK] Set" ELSE "[X] Not Set"
        /\ Body.database_name =
              IF "DATABASE_NAME" \in DOMAIN environ THEN "[OK] Set" ELSE "[X] Not Set"

\* C8: in GET /schema every exposed type is keyed by its name, `title` is
\* that name and `collection` is the name in lower case.
LowerCased == [User |-> "user", ORDERItem |-> "orderitem",
               BaseModel |-> "basemodel", Helper |-> "helper", Field |-> "field"]

C9_ConnectedIffHandleAsClaimed ==
    TestServed =>
        /\ Body.connection_status \in {"Connected", "Not Connected"}
        /\ (Body.connection_status = "Connected") <=> HandlePresent

\* C9 (amended): connection_status is "Connected" exactly when the module
\* loaded, its db handle is not None and reading the handle's name did not
\* raise, and "Not Connected" otherwise; it is "Connected" also when the
\* listing fails, and whenever database is "Connected & Working".
C9_ConnectedIffNameRead ==
    TestServed =>
        /\ Body.connection_status \in {"Connected", "Not Connected"}
        /\ (Body.connection_status = "Connected") <=> (HandlePresent /\ ~NameRaises)
        /\ ListingRaises => Body.connection_status = "Connected"
        /\ Body.database = "[OK] Connected & Working" =>
              Body.connection_status = "Connected"

C9_Witness ==
    /\ TestServed
    /\ ListingRaises
    /\ Body.connection_status = "Connected"

\* C10: in GET /test, `collections` has at most 10 entries; when the
\* listing returns a list of n names it is the first min(10, n) of them in
\* order; it is empty when the module is missing, the handle is None or the
\* listing raises.
C10_CollectionsPrefix ==
    TestServed =>
        /\ Len(Body.collections) <= 10
        /\ ListingReturns =>
              LET names == database.db.names
                  k == IF Len(names) < 10 THEN Len(names) ELSE 10
              IN  /\ Len(Body.collections) = k
                  /\ \A i \in 1..k : Body.collections[i] = names[i]
        /\ (~ModuleLoaded \/ ~HandlePresent \/ ListingRaises) =>
              Body.collections = <<>>

C10_Witness ==
    /\ TestServed
    /\ ListingReturns
    /\ Len(database.db.names) = MaxCollections
    /\ database.db.names[1] # "c1"
    /\ Len(Body.collections) = 10

(***************************************************************************)
(* Concurrent requests.  The handlers are plain functions, so the          *)
(* framework runs each call in a worker thread: calls interleave between   *)
(* statements.  pc[r] is the line request r is about to execute, frame[r]  *)
(* holds the call's local variables, and heap holds the response mappings  *)
(* the calls of test_database build, each in the slot its `response`       *)
(* variable refers to.                                                     *)
(***************************************************************************)
NumRequests == 2

Requests == 1..NumRequests

Endpoints == {"/", "/api/hello", "/test", "/schema"}

EmptyDict == [k \in {} |-> ""]

NoValue == Ok(EmptyDict)

EmptyFrame == [kind |-> "none", exc |-> "none", collections |-> <<>>, ret |-> NoValue]

\* Faulty variant of the slot: one module-level mapping shared by all calls.
Slot_Shared(r) == 1

\* `response = {...}` creates a new mapping in every call: each call has
\* a slot of its own.
Slot(r) == r

\* The collaborator states the concurrent runs start from: one for every
\* path through test_database and get_schema.
ConcDbWorlds ==
    {DbWorld("ModuleNotFoundError", NoDb, "No module named 'database'"),
     DbWorld("Exception", NoDb, Msg(MaxMsgLen)),
     DbWorld("ok", NoDb, ""),
     DbWorld("ok", Handle("value", "appdb", "ok",
                          CollectionNames(MaxCollections, FALSE)), ""),
     DbWorld("ok", Handle("value", "appdb", "Exception", <<>>), Msg(MaxMsgLen)),
     DbWorld("ok", Handle("Exception", PyNone, "ok", CollectionNames(2, FALSE)),
             Msg(MaxMsgLen))}

ConcEnvirons ==
    {e \in Environs :
        \/ DOMAIN e = {}
        \/ /\ DOMAIN e = EnvNames
           /\ e["DATABASE_URL"] = ""
           /\ e["DATABASE_NAME"] # ""}

ConcSchemaWorlds ==
    {SchemaWorld("Exception", EmptyNamespace, Msg(MaxMsgLen)),
     SchemaWorld("ok", Universe, "")}

ConcInit ==
    /\ database \in ConcDbWorlds
    /\ environ \in ConcEnvirons
    /\ schemas \in ConcSchemaWorlds
    /\ last = NoRequest
    /\ pc = [r \in Requests |-> "idle"]
    /\ frame = [r \in Requests |-> EmptyFrame]
    /\ heap = [s \in Requests |-> EmptyDict]

Goto(r, label) == pc' = [pc EXCEPT ![r] = label]

\* response[key] = value
Store(r, key, value) == heap' = [heap EXCEPT ![Slot(r)][key] = value]

\* The framework hands a request to its handler.
Start(r, endpoint) ==
    /\ pc[r] = "idle"
    /\ frame' = [frame EXCEPT ![r].kind = endpoint]
    /\ Goto(r, CASE endpoint = "/" -> "L21"
                 [] endpoint = "/api/hello" -> "L25"
                 [] endpoint = "/test" -> "L30"
                 [] endpoint = "/schema" -> "L77")
    /\ UNCHANGED <<world, last, heap>>

\* return <value>
Return(r, label, value) ==
    /\ pc[r] = label
    /\ frame' = [frame EXCEPT ![r].ret = value]
    /\ Goto(r, "done")
    /\ UNCHANGED <<world, last, heap>>

RootL21(r) == Return(r, "L21", read_root)

HelloL25(r) == Return(r, "L25", hello)

TestL30(r) ==
    /\ pc[r] = "L30"
    /\ heap' = [heap EXCEPT ![Slot(r)] = InitialResponse]
    /\ Goto(r, "L41")
    /\ UNCHANGED <<world, last, frame>>

\* from database import db
TestL41(r) ==
    /\ pc[r] = "L41"
    /\ IF database.import = "ok"
       THEN Goto(r, "L43") /\ UNCHANGED frame
       ELSE /\ frame' = [frame EXCEPT ![r].exc = database.import]
            /\ Goto(r, "L59")
    /\ UNCHANGED <<world, last, heap>>

\* if db is not None:
TestL43(r) ==
    /\ pc[r] = "L43"
    /\ Goto(r, IF database.db.handle # "None" THEN "L44" ELSE "L57")
    /\ UNCHANGED <<world, last, frame, heap>>

TestL44(r) ==
    /\ pc[r] = "L44"
    /\ Store(r, "database", "[OK] Available")
    /\ Goto(r, "L45")
    /\ UNCHANGED <<world, last, frame>>

TestL45(r) ==
    /\ pc[r] = "L45"
    /\ Store(r, "database_url", "[OK] Configured")
    /\ Goto(r, "L46")
    /\ UNCHANGED <<world, last, frame>>

\* response["database_name"] = db.name if hasattr(db, 'name') else ...
TestL46(r) ==
    /\ pc[r] = "L46"
    /\ IF database.db.name \in {"ImportError", "Exception"}
       THEN /\ frame' = [frame EXCEPT ![r].exc = database.db.name]
            /\ Goto(r, "L59")
            /\ UNCHANGED heap
       ELSE /\ Store(r, "database_name",
                     IF database.db.name = "value" THEN database.db.name_value
                                                   ELSE "[OK] Connected")
            /\ Goto(r, "L47")
            /\ UNCHANGED frame
    /\ UNCHANGED <<world, last>>

TestL47(r) ==
    /\ pc[r] = "L47"
    /\ Store(r, "connection_status", "Connected")
    /\ Goto(r, "L51")
    /\ UNCHANGED <<world, last, frame>>

\* collections = db.list_collection_names()
TestL51(r) ==
    /\ pc[r] = "L51"
    /\ IF database.db.listing = "ok"
       THEN /\ frame' = [frame EXCEPT ![r].collections = database.db.names]
            /\ Goto(r, "L52")
       ELSE /\ frame' = [frame EXCEPT ![r].exc = database.db.listing]
            /\ Goto(r, "L55")
    /\ UNCHANGED <<world, last, heap>>

TestL52(r) ==
    /\ pc[r] = "L52"
    /\ Store(r, "collections", Slice(frame[r].collections, CollectionLimit))
    /\ Goto(r, "L53")
    /\ UNCHANGED <<world, last, frame>>

TestL53(r) ==
    /\ pc[r] = "L53"
    /\ Store(r, "database", "[OK] Connected & Working")
    /\ Goto(r, "L66")
    /\ UNCHANGED <<world, last, frame>>

\* except Exception as e: (the inner handler)
TestL55(r) ==
    /\ pc[r] = "L55"
    /\ Store(r, "database",
             "[!]  Connected but Error: " \o Slice(database.message, MsgLimit))
    /\ frame' = [frame EXCEPT ![r].exc = "none"]
    /\ Goto(r, "L66")
    /\ UNCHANGED <<world, last>>

TestL57(r) ==
    /\ pc[r] = "L57"
    /\ Store(r, "database", "[!]  Available but not initialized")
    /\ Goto(r, "L66")
    /\ UNCHANGED <<world, last, frame>>

\* except ImportError: ... except Exception as e: ...
TestL59(r) ==
    /\ pc[r] = "L59"
    /\ Store(r, "database",
             IF IsImportError(frame[r].exc)
             THEN "[X] Database module not found (run enable-database first)"
             ELSE "[X] Error: " \o Slice(database.message, MsgLimit))
    /\ frame' = [frame EXCEPT ![r].exc = "none"]
    /\ Goto(r, "L66")
    /\ UNCHANGED <<world, last>>

TestL66(r) ==
    /\ pc[r] = "L66"
    /\ Store(r, "database_url",
             IF Truthy(getenv(environ, "DATABASE_URL")) THEN "[OK] Set"
                                                        ELSE "[X] Not Set")
    /\ Goto(r, "L67")
    /\ UNCHANGED <<world, last, frame>>

TestL67(r) ==
    /\ pc[r] = "L67"
    /\ Store(r, "database_name",
             IF Truthy(getenv(environ, "DATABASE_NAME")) THEN "[OK] Set"
                                                         ELSE "[X] Not Set")
    /\ Goto(r, "L69")
    /\ UNCHANGED <<world, last, frame>>

\* return response
TestL69(r) == Return(r, "L69", Ok(heap[Slot(r)]))

\* schemas_module = importlib.import_module("schemas"), and its handler
SchemaL77(r) ==
    /\ pc[r] = "L77"
    /\ IF schemas.import = "ok"
       THEN /\ Goto(r, "L83")
            /\ UNCHANGED frame
       ELSE /\ frame' = [frame EXCEPT ![r].ret =
                            Ok([error |-> "Unable to import schemas: " \o schemas.message])]
            /\ Goto(r, "done")
    /\ UNCHANGED <<world, last, heap>>

\* The loop over the members builds `definitions`, a local of the call,
\* and the call returns it.
SchemaL83(r) == Return(r, "L83", Ok([schemas |-> Definitions(schemas.members)]))

\* The framework sends the response; the worker is free again.
Finish(r) ==
    /\ pc[r] = "done"
    /\ Goto(r, "idle")
    /\ frame' = [frame EXCEPT ![r] = EmptyFrame]
    /\ UNCHANGED <<world, last, heap>>

ConcNext ==
    \E r \in Requests :
        \/ \E e \in Endpoints : Start(r, e)
        \/ RootL21(r)
        \/ HelloL25(r)
        \/ TestL30(r)
        \/ TestL41(r)
        \/ TestL43(r)
        \/ TestL44(r)
        \/ TestL45(r)
        \/ TestL46(r)
        \/ TestL47(r)
        \/ TestL51(r)
        \/ TestL52(r)
        \/ TestL53(r)
        \/ TestL55(r)
        \/ TestL57(r)
        \/ TestL59(r)
        \/ TestL66(r)
        \/ TestL67(r)
        \/ TestL69(r)
        \/ SchemaL77(r)
        \/ SchemaL83(r)
        \/ Finish(r)

ConcSpec == ConcInit /\ [][ConcNext]_vars

\* The response a request to the endpoint gets when it is handled alone.
Alone(endpoint) ==
    CASE endpoint = "/" -> read_root
      [] endpoint = "/api/hello" -> hello
      [] endpoint = "/test" -> test_database(database, environ)
      [] endpoint = "/schema" -> get_schema(schemas)

\* C7: under any interleaving of concurrent requests, every request
\* returns the response it would get if it were handled alone against the
\* same collaborators and environment: no call sees or changes the mapping
\* another call builds.
C7_ResponseAsIfAlone ==
    \A r \in Requests :
        pc[r] = "done" => frame[r].ret = Alone(frame[r].kind)

C7_Witness ==
    \E r1, r2 \in Requests :
        /\ r1 # r2
        /\ pc[r1] = "done"
        /\ frame[r1].kind = "/test"
        /\ frame[r2].kind = "/test"
        /\ pc[r2] = "L44"
        /\ ListingReturns
        /\ Len(frame[r1].ret.body.collections) = 10

====
